---- MODULE Spec2Model ----
(***************************************************************************)
(* The duplex session relay of server-telecentro: one client WebSocket and *)
(* one GeminiConnection per client connection, the session registry        *)
(* `connections`, the configuration handshake, the receive loop            *)
(* receiveFromGemini with its tool dispatch, and cleanupConnection.        *)
(*                                                                         *)
(* Node runs one task at a time.  `running` names the connection whose     *)
(* task is between two awaits that did not reach the event loop; every     *)
(* event (a client frame, an upstream frame, an open, a close, an error)   *)
(* is taken only when running = 0.  A task gives the event loop a turn     *)
(* exactly where the source awaits a ws.send callback or a socket event.   *)
(*                                                                         *)
(* The browser side of front-telecentro is modelled next to it: the turn   *)
(* state of the GeminiVoiceChat component (startCall, stopCall,            *)
(* handleServerMessage) and the playback buffer AudioStreamer.             *)
(***************************************************************************)
EXTENDS Integers, Sequences, FiniteSets, TLC

\* Bounds of the model.
MaxConns == 2     \* client connections accepted by the server (RegSpec)
MaxEvents == 2    \* content frames received, from the service or from the client (Spec)
MaxSockets == 2   \* WebSockets the component opens, one per startCall (FrontSpec)
MaxMessages == 3  \* server messages the component handles (FrontSpec)
MaxSent == 2      \* content frames the component writes (FrontSpec)
MaxSegs == 3      \* segments handed to addPCM16 (PlaySpec)
MaxTime == 6      \* clock of the playback buffer, in half seconds (PlaySpec)
MaxStops == 1     \* calls of stop() by the host (PlaySpec)

Conns == 1..MaxConns
\* clientId is the path segment of the upgrade URL; connection c draws it
\* from 1..c, so that a later connection may repeat an earlier identifier.
ClientIds == 1..MaxConns
Sockets == 1..MaxSockets
Segs == 1..MaxSegs

VARIABLES
  connections,     \* clientId -> connection whose {clientWs, geminiConn} is stored, 0 if none
  cid,             \* connection -> its clientId (0 before the connection event)
  clientWs,        \* connection -> readyState of the client socket
  configReceived,  \* connection -> the closure variable configReceived
  cfgPc,           \* connection -> position of the configuration handler
  connectP,        \* connection -> state of the promise returned by connect()
  geminiConn,      \* connection -> fields ws, config, connected of its GeminiConnection
  upstreamWs,      \* connection -> readyState of the socket opened by connect()
  acked,           \* connection -> the service has sent its setup response
  closeWait,       \* connection -> close() has registered its "close" handler and waits
  loop,            \* connection -> position and frame of receiveFromGemini, outcome of its last receive()
  sent,            \* connection -> frames written so far, to the upstream or to the client
  running,         \* connection whose task holds the thread, 0 when the event loop is idle
  nEvents,         \* content frames received so far, from the service or from the client
  firstFrame,      \* connection -> kind of the first frame its message handler received
  received,        \* the latest frame handled by the switch for later messages, and its number
  cleanups         \* connection -> runs of cleanupConnection started by its close and error events

relayVars == <<connections, cid, clientWs, configReceived, cfgPc, connectP, geminiConn,
               upstreamWs, acked, closeWait, loop, sent, running, nEvents, firstFrame, received,
               cleanups>>

\* GeminiVoiceChat (gemini-playground.tsx).
VARIABLES
  geminiState,     \* the turn state: "Idle", "Listening", "Speaking" or "Interrupted"
  wsRef,           \* wsRef.current: the socket it refers to, 0 for null
  frontWs,         \* socket -> readyState of a socket created by startCall
  geminiReady,     \* the state variable geminiReady
  isStreaming,     \* the state variable isStreaming
  readySeen,       \* socket -> a gemini_ready message was handled on it
  stopTimers,      \* pending setTimeout(stopCall, 5000) of end_call messages
  frontSent,       \* frames the component has written, as <<socket, type>>
  nMessages        \* server messages handled so far

frontVars == <<geminiState, wsRef, frontWs, geminiReady, isStreaming, readySeen, stopTimers,
               frontSent, nMessages>>

\* AudioStreamer (audio-streamer.ts) and the audio engine it drives.
VARIABLES
  streamer,        \* the fields of the AudioStreamer and what it has scheduled and reported
  source,          \* segment -> state of the AudioBufferSourceNode made for it
  duration,        \* segment -> its playing time
  endsAt,          \* segment -> the time at which its source has played to the end
  now,             \* context.currentTime and the timer clock, in half seconds
  nSegs            \* segments handed to addPCM16 so far

playerVars == <<streamer, source, duration, endsAt, now, nSegs>>

vars == <<relayVars, frontVars, playerVars>>

----
\* Frames of the AI service.

\* Names a functionCalls entry may carry: the two registered handlers, a name
\* that is no property of toolHandlers, and a name that Object.prototype supplies.
ToolNames == {"write_text", "end_call", "search", "constructor"}

\* The functionCalls lists the service sends.
CallLists ==
  {<<"write_text", "end_call">>, <<"search", "write_text">>,
   <<"constructor", "search">>, <<"end_call">>}

\* A part's text is a sequence of characters; <<>> stands for a part without text.
\* empty marks a message of length zero, which receive() returns as "".
Frame(ok, calls, it, inn, mt, parts, tct, tcn) ==
  [parseOk |-> ok, functionCalls |-> calls, interruptedTop |-> it,
   interruptedNested |-> inn, modelTurn |-> mt, parts |-> parts,
   turnCompleteTop |-> tct, turnCompleteNested |-> tcn, empty |-> FALSE]

\* A message that is no JSON text, and the message of length zero.
NoFrame == Frame(FALSE, <<>>, FALSE, FALSE, FALSE, <<>>, FALSE, FALSE)
EmptyFrame == [NoFrame EXCEPT !.empty = TRUE]

ToolFrames ==
  {Frame(TRUE, calls, FALSE, FALSE, FALSE, <<>>, FALSE, FALSE) : calls \in CallLists}

InterruptFrames ==
  {Frame(TRUE, <<>>, TRUE, FALSE, FALSE, <<>>, FALSE, FALSE),
   Frame(TRUE, <<>>, FALSE, TRUE, TRUE, <<<<"a">>>>, FALSE, TRUE),
   Frame(TRUE, <<"write_text">>, FALSE, TRUE, FALSE, <<>>, FALSE, FALSE)}

ContentFrames ==
  {Frame(TRUE, <<>>, FALSE, FALSE, TRUE, <<<<" ", "b", " ">>, <<>>, <<"a">>>>, tct, tcn) :
     tct \in BOOLEAN, tcn \in BOOLEAN}
  \cup {Frame(TRUE, <<>>, FALSE, FALSE, FALSE, <<>>, TRUE, FALSE)}

Frames == ToolFrames \cup InterruptFrames \cup ContentFrames \cup {NoFrame, EmptyFrame}

\* Frames of the client after the configuration frame.
ClientTypes == {"text", "image", "continue", "end", "config", "bogus"}

----
Init ==
  /\ connections = [i \in ClientIds |-> 0]
  /\ cid = [c \in Conns |-> 0]
  /\ clientWs = [c \in Conns |-> "NONE"]
  /\ configReceived = [c \in Conns |-> FALSE]
  /\ cfgPc = [c \in Conns |-> "none"]
  /\ connectP = [c \in Conns |-> "none"]
  /\ geminiConn = [c \in Conns |-> [ws |-> FALSE, config |-> FALSE, connected |-> FALSE]]
  /\ upstreamWs = [c \in Conns |-> "NONE"]
  /\ acked = [c \in Conns |-> FALSE]
  /\ closeWait = [c \in Conns |-> FALSE]
  /\ loop = [c \in Conns |-> [pc |-> "notStarted", frame |-> NoFrame, i |-> 1, k |-> 1, n |-> 0,
                             got |-> "none"]]
  /\ sent = [c \in Conns |-> <<>>]
  /\ running = 0
  /\ nEvents = 0
  /\ firstFrame = [c \in Conns |-> "none"]
  /\ received = [n |-> 0, conn |-> 0, type |-> "none", data |-> "none"]
  /\ cleanups = [c \in Conns |-> 0]
  /\ geminiState = "Idle"
  /\ wsRef = 0
  /\ frontWs = [s \in Sockets |-> "NONE"]
  /\ geminiReady = FALSE
  /\ isStreaming = FALSE
  /\ readySeen = [s \in Sockets |-> FALSE]
  /\ stopTimers = 0
  /\ frontSent = <<>>
  /\ nMessages = 0
  /\ streamer = [audioQueue |-> <<>>, isPlaying |-> FALSE, isDisposed |-> FALSE,
                 currentSource |-> 0, playbackTimeout |-> -1, lastPlaybackTime |-> 0,
                 gain |-> 1, callbacks |-> TRUE, advances |-> 0, runs |-> 0,
                 nComplete |-> 0, nInterruption |-> 0, nStops |-> 0, started |-> <<>>]
  /\ source = [s \in Segs |-> "none"]
  /\ duration = [s \in Segs |-> 0]
  /\ endsAt = [s \in Segs |-> 0]
  /\ now = 0
  /\ nSegs = 0

----
\* GeminiConnection and the helpers of gemini-connection.js.

FreshConn == [ws |-> FALSE, config |-> FALSE, connected |-> FALSE]

\* An isOpen() that only tests that a socket was created.
isOpen_SocketOnly(g) == geminiConn[g].ws

\* isOpen(): this.connected && this.ws?.readyState === WebSocket.OPEN
isOpen(g) == geminiConn[g].connected /\ geminiConn[g].ws /\ upstreamWs[g] = "OPEN"

Up(type, fr, body) == [to |-> "up", type |-> type, fr |-> fr, body |-> body]
Down(type, fr, body) == [to |-> "client", type |-> type, fr |-> fr, body |-> body]

\* The setup frame written by the "open" handler of connect().
SetupFrame == Up("setup", 0, [response_modalities |-> <<"TEXT">>])

\* sendText that leaves the turn open.
TextEnvelope_TurnOpen(fr, text) ==
  [to |-> "up", type |-> "client_content", fr |-> fr,
   body |-> [via |-> "sendText", parts |-> <<[text |-> text]>>, turn_complete |-> FALSE]]

\* sendText, sendImage, sendContinue, sendEnd: the envelope each one builds.
TextEnvelope(fr, text) ==
  Up("client_content", fr, [via |-> "sendText", parts |-> <<[text |-> text]>>, turn_complete |-> TRUE])
ImageEnvelope(fr, data) ==
  Up("client_content", fr,
     [via |-> "sendImage", parts |-> <<[text |-> "Describeme la imagen"], [inline_data |-> data]>>,
      turn_complete |-> TRUE])
ContinueEnvelope(fr) ==
  Up("client_content", fr, [via |-> "sendContinue", parts |-> <<>>, turn_complete |-> FALSE])
EndEnvelope(fr) ==
  Up("client_content", fr, [via |-> "sendEnd", parts |-> <<>>, turn_complete |-> TRUE])

\* The tool_response of a handler, and the one handleToolCall builds itself.
ToolResponse(fr, id, name) ==
  Up("tool_response", fr, [id |-> id, name |-> name, error |-> <<>>])
ToolErrorResponse(fr, id, name) ==
  Up("tool_response", fr, [id |-> id, name |-> name, error |-> <<"Tool not implemented: ", name>>])

\* sendJsonSafe(ws, obj) writes only when ws.readyState === WebSocket.OPEN.
sendJsonSafe(c, log, entry) == IF clientWs[c] = "OPEN" THEN Append(log, entry) ELSE log

\* A handler that logs the failure and leaves the client socket open.
CloseClient_Ignored(c, ws) == ws

\* clientWs.close(1011, ...): an open socket starts its closing handshake.
CloseClient(c, ws) == IF ws[c] = "OPEN" THEN [ws EXCEPT ![c] = "CLOSING"] ELSE ws

----
\* A cleanup whose close() on a session that is not open clears the fields
\* and forgets to delete the registry entry.
cleanupConnection_KeepsEntry(id) ==
  LET g == connections[id] IN
  IF g = 0
  THEN UNCHANGED <<geminiConn, upstreamWs, closeWait, connections>>
  ELSE IF isOpen(g)
       THEN /\ upstreamWs' = [upstreamWs EXCEPT ![g] = "CLOSING"]
            /\ closeWait' = [closeWait EXCEPT ![g] = TRUE]
            /\ UNCHANGED <<geminiConn, connections>>
       ELSE /\ geminiConn' = [geminiConn EXCEPT ![g] = FreshConn]
            /\ UNCHANGED <<connections, upstreamWs, closeWait>>

\* cleanupConnection(clientId), run to its first await that reaches the event
\* loop.  close() on an open GeminiConnection registers a "close" handler,
\* calls ws.close() and waits; otherwise it clears the fields at once and
\* cleanupConnection goes on to connections.delete(clientId).
cleanupConnection(id) ==
  LET g == connections[id] IN
  IF g = 0
  THEN UNCHANGED <<geminiConn, upstreamWs, closeWait, connections>>
  ELSE IF isOpen(g)
       THEN /\ upstreamWs' = [upstreamWs EXCEPT ![g] = "CLOSING"]
            /\ closeWait' = [closeWait EXCEPT ![g] = TRUE]
            /\ UNCHANGED <<geminiConn, connections>>
       ELSE /\ geminiConn' = [geminiConn EXCEPT ![g] = FreshConn]
            /\ connections' = [connections EXCEPT ![id] = 0]
            /\ UNCHANGED <<upstreamWs, closeWait>>

----
\* wss.on("connection"): a new GeminiConnection, stored under clientId.
Connection(c, id) ==
  /\ running = 0
  /\ clientWs[c] = "NONE"
  /\ \A b \in 1..(c - 1) : clientWs[b] # "NONE"
  /\ id \in 1..c
  /\ clientWs' = [clientWs EXCEPT ![c] = "OPEN"]
  /\ cid' = [cid EXCEPT ![c] = id]
  /\ connections' = [connections EXCEPT ![id] = c]
  /\ UNCHANGED <<received, frontVars, playerVars, firstFrame, cleanups>>
  /\ UNCHANGED <<configReceived, cfgPc, connectP, geminiConn, upstreamWs, acked,
                 closeWait, loop, sent, running, nEvents>>

\* clientWs.on("message") while configReceived is false, first frame not "config".
FirstNotConfig(c) ==
  /\ running = 0
  /\ clientWs[c] \in {"OPEN", "CLOSING"}
  /\ ~configReceived[c]
  /\ clientWs' = CloseClient(c, clientWs)
  /\ firstFrame' = [firstFrame EXCEPT ![c] = IF @ = "none" THEN "other" ELSE @]
  /\ UNCHANGED <<received, frontVars, playerVars, cleanups>>
  /\ UNCHANGED <<connections, cid, configReceived, cfgPc, connectP, geminiConn, upstreamWs,
                 acked, closeWait, loop, sent, running, nEvents>>

\* First frame "config" whose config is missing or no object: the throw is
\* caught and the client socket is closed with 1011.
FirstConfigInvalid(c) ==
  /\ running = 0
  /\ clientWs[c] \in {"OPEN", "CLOSING"}
  /\ ~configReceived[c]
  /\ configReceived' = [configReceived EXCEPT ![c] = TRUE]
  /\ firstFrame' = [firstFrame EXCEPT ![c] = IF @ = "none" THEN "config" ELSE @]
  /\ cfgPc' = [cfgPc EXCEPT ![c] = "failed"]
  /\ clientWs' = CloseClient(c, clientWs)
  /\ UNCHANGED <<received, frontVars, playerVars, cleanups>>
  /\ UNCHANGED <<connections, cid, connectP, geminiConn, upstreamWs, acked, closeWait,
                 loop, sent, running, nEvents>>

\* First frame "config" with a configuration object: setConfig, then connect()
\* creates the upstream socket and the handler waits for the promise.
FirstConfig(c) ==
  /\ running = 0
  /\ clientWs[c] \in {"OPEN", "CLOSING"}
  /\ ~configReceived[c]
  /\ configReceived' = [configReceived EXCEPT ![c] = TRUE]
  /\ firstFrame' = [firstFrame EXCEPT ![c] = IF @ = "none" THEN "config" ELSE @]
  /\ geminiConn' = [geminiConn EXCEPT ![c] = [ws |-> TRUE, config |-> TRUE, connected |-> @.connected]]
  /\ upstreamWs' = [upstreamWs EXCEPT ![c] = "CONNECTING"]
  /\ connectP' = [connectP EXCEPT ![c] = "pending"]
  /\ cfgPc' = [cfgPc EXCEPT ![c] = "awaitConnect"]
  /\ UNCHANGED <<received, frontVars, playerVars, cleanups>>
  /\ UNCHANGED <<connections, cid, clientWs, acked, closeWait, loop, sent, running,
                 nEvents>>

\* The data of the text frames a client sends, and of a frame of each type.
TextData == {"hola", "chau"}
FrameData(type) == IF type = "text" THEN TextData ELSE IF type = "image" THEN {"jpeg"} ELSE {"none"}
\* One frame of each type.
SampleData(type) == IF type = "text" THEN "hola" ELSE IF type = "image" THEN "jpeg" ELSE "none"

\* A switch that sends the setup frame again for a later "config" frame.
ClientEnvelope_ConfigResent(type, data) ==
  CASE type = "text" -> <<TextEnvelope(0, data)>>
    [] type = "image" -> <<ImageEnvelope(0, data)>>
    [] type = "continue" -> <<ContinueEnvelope(0)>>
    [] type = "end" -> <<EndEnvelope(0)>>
    [] type = "config" -> <<SetupFrame>>
    [] OTHER -> <<>>

\* A switch that treats a frame of unknown type as "continue".
ClientEnvelope_UnknownContinues(type, data) ==
  CASE type = "text" -> <<TextEnvelope(0, data)>>
    [] type = "image" -> <<ImageEnvelope(0, data)>>
    [] type = "end" -> <<EndEnvelope(0)>>
    [] OTHER -> <<ContinueEnvelope(0)>>

\* The envelope a later client frame of the given type puts on the upstream
\* socket (the switch of clientWs.on("message")); <<>> when it writes nothing.
ClientEnvelope(type, data) ==
  CASE type = "text" -> <<TextEnvelope(0, data)>>
    [] type = "image" -> <<ImageEnvelope(0, data)>>
    [] type = "continue" -> <<ContinueEnvelope(0)>>
    [] type = "end" -> <<EndEnvelope(0)>>
    [] OTHER -> <<>>

\* A handler whose write overtakes the frames written before it.
ClientMessage_Overtakes(c, type) ==
  /\ running = 0
  /\ clientWs[c] \in {"OPEN", "CLOSING"}
  /\ configReceived[c]
  /\ nEvents < MaxEvents
  /\ nEvents' = nEvents + 1
  /\ \E data \in FrameData(type) :
       /\ received' = [n |-> nEvents + 1, conn |-> c, type |-> type, data |-> data]
       /\ sent' = [sent EXCEPT ![c] = IF isOpen(c) THEN ClientEnvelope(type, data) \o @ ELSE @]
  /\ UNCHANGED <<frontVars, playerVars, firstFrame, cleanups>>
  /\ UNCHANGED <<connections, cid, clientWs, configReceived, cfgPc, connectP, geminiConn,
                 upstreamWs, acked, closeWait, loop, running>>

\* clientWs.on("message") once configReceived is true, for a frame with the
\* given type and data.
ClientFrame(c, type, data) ==
  /\ running = 0
  /\ clientWs[c] \in {"OPEN", "CLOSING"}
  /\ configReceived[c]
  /\ nEvents < MaxEvents
  /\ nEvents' = nEvents + 1
  /\ received' = [n |-> nEvents + 1, conn |-> c, type |-> type, data |-> data]
  /\ sent' = [sent EXCEPT ![c] = IF isOpen(c) THEN @ \o ClientEnvelope(type, data) ELSE @]
  /\ UNCHANGED <<frontVars, playerVars, firstFrame, cleanups>>
  /\ UNCHANGED <<connections, cid, clientWs, configReceived, cfgPc, connectP, geminiConn,
                 upstreamWs, acked, closeWait, loop, running>>

\* The same for a frame of the given type with any data.
ClientMessage(c, type) == \E data \in FrameData(type) : ClientFrame(c, type, data)

\* clientWs.on("close"): the socket is closed, cleanupConnection(clientId) runs.
ClientClose(c) ==
  /\ running = 0
  /\ clientWs[c] \in {"OPEN", "CLOSING"}
  /\ clientWs' = [clientWs EXCEPT ![c] = "CLOSED"]
  /\ cleanupConnection(cid[c])
  /\ cleanups' = [cleanups EXCEPT ![c] = @ + 1]
  /\ UNCHANGED <<received, frontVars, playerVars, firstFrame>>
  /\ UNCHANGED <<cid, configReceived, cfgPc, connectP, acked, loop, sent, running,
                 nEvents>>

\* clientWs.on("error"): ws emits "error" and then "close"; both handlers
\* run cleanupConnection(clientId).
ClientError(c) ==
  /\ running = 0
  /\ clientWs[c] = "OPEN"
  /\ clientWs' = [clientWs EXCEPT ![c] = "CLOSING"]
  /\ cleanupConnection(cid[c])
  /\ cleanups' = [cleanups EXCEPT ![c] = @ + 1]
  /\ UNCHANGED <<received, frontVars, playerVars, firstFrame>>
  /\ UNCHANGED <<cid, configReceived, cfgPc, connectP, acked, loop, sent, running,
                 nEvents>>

----
\* Events of the upstream socket created by connect().

\* "open": connected becomes true and the setup frame is built from
\* this.config and written; with this.config cleared by close() the handler
\* throws, connect() rejects and the configuration handler closes the client.
UpstreamOpen(g) ==
  /\ running = 0
  /\ upstreamWs[g] = "CONNECTING"
  /\ upstreamWs' = [upstreamWs EXCEPT ![g] = "OPEN"]
  /\ geminiConn' = [geminiConn EXCEPT ![g].connected = TRUE]
  /\ IF geminiConn[g].config
     THEN /\ sent' = [sent EXCEPT ![g] = Append(@, SetupFrame)]
          /\ UNCHANGED <<connectP, cfgPc, clientWs>>
     ELSE /\ connectP' = [connectP EXCEPT ![g] = "rejected"]
          /\ cfgPc' = [cfgPc EXCEPT ![g] = "failed"]
          /\ clientWs' = CloseClient(g, clientWs)
          /\ UNCHANGED sent
  /\ UNCHANGED <<received, frontVars, playerVars, firstFrame, cleanups>>
  /\ UNCHANGED <<connections, cid, configReceived, acked, closeWait, loop, running,
                 nEvents>>

\* The first "message" of the socket resolves connect(); the handler then
\* awaits sendJsonSafe(clientWs, gemini_ready), or, with the client socket
\* not open, goes straight on to receiveFromGemini.
UpstreamAck(g) ==
  /\ running = 0
  /\ upstreamWs[g] = "OPEN"
  /\ ~acked[g]
  /\ connectP[g] = "pending"
  /\ \E i \in 1..Len(sent[g]) : sent[g][i].type = "setup"
  /\ acked' = [acked EXCEPT ![g] = TRUE]
  /\ connectP' = [connectP EXCEPT ![g] = "resolved"]
  /\ IF clientWs[g] = "OPEN"
     THEN /\ sent' = [sent EXCEPT ![g] = Append(@, Down("gemini_ready", 0, [data |-> TRUE]))]
          /\ cfgPc' = [cfgPc EXCEPT ![g] = "readyWait"]
          /\ UNCHANGED <<loop, running>>
     ELSE /\ cfgPc' = [cfgPc EXCEPT ![g] = "done"]
          /\ loop' = [loop EXCEPT ![g].pc = "top"]
          /\ running' = g
          /\ UNCHANGED sent
  /\ UNCHANGED <<received, frontVars, playerVars, firstFrame, cleanups>>
  /\ UNCHANGED <<connections, cid, clientWs, configReceived, geminiConn, upstreamWs,
                 closeWait, nEvents>>

\* A handler that starts receiveFromGemini without waiting for connect().
ReadySent_BeforeAck(g) ==
  /\ running = 0
  /\ cfgPc[g] \in {"awaitConnect", "readyWait"}
  /\ cfgPc' = [cfgPc EXCEPT ![g] = "done"]
  /\ loop' = [loop EXCEPT ![g].pc = "top"]
  /\ running' = g
  /\ UNCHANGED <<received, frontVars, playerVars, firstFrame, cleanups>>
  /\ UNCHANGED <<connections, cid, clientWs, configReceived, connectP, geminiConn,
                 upstreamWs, acked, closeWait, sent, nEvents>>

\* The send callback of gemini_ready: receiveFromGemini is called.
ReadySent(g) ==
  /\ running = 0
  /\ cfgPc[g] = "readyWait"
  /\ cfgPc' = [cfgPc EXCEPT ![g] = "done"]
  /\ loop' = [loop EXCEPT ![g].pc = "top"]
  /\ running' = g
  /\ UNCHANGED <<received, frontVars, playerVars, firstFrame, cleanups>>
  /\ UNCHANGED <<connections, cid, clientWs, configReceived, connectP, geminiConn,
                 upstreamWs, acked, closeWait, sent, nEvents>>

\* A later "message": it reaches the once("message") listener of a pending
\* receive(); with no receive() pending there is no listener.
UpstreamFrame(g, f) ==
  /\ running = 0
  /\ upstreamWs[g] = "OPEN"
  /\ acked[g]
  /\ nEvents < MaxEvents
  /\ nEvents' = nEvents + 1
  /\ IF loop[g].pc = "receiving"
     THEN /\ loop' = [loop EXCEPT ![g] = [pc |-> "parse", frame |-> f, i |-> 1, k |-> 1, n |-> @.n + 1,
                                             got |-> "frame"]]
          /\ running' = g
     ELSE UNCHANGED <<loop, running>>
  /\ UNCHANGED <<received, frontVars, playerVars, firstFrame, cleanups>>
  /\ UNCHANGED <<connections, cid, clientWs, configReceived, cfgPc, connectP, geminiConn,
                 upstreamWs, acked, closeWait, sent>>

\* A receive() whose "close" listener rejects.
closeOutcome_Rejects == "error"

\* The "close" listener of receive(): resolve(null).
closeOutcome == "null"

\* "error": connect() rejects if still pending (the handler closes the client
\* socket), a pending receive() rejects (the loop breaks); "close" follows.
UpstreamError(g) ==
  /\ running = 0
  /\ upstreamWs[g] \in {"CONNECTING", "OPEN"}
  /\ upstreamWs' = [upstreamWs EXCEPT ![g] = "CLOSING"]
  /\ IF connectP[g] = "pending"
     THEN /\ connectP' = [connectP EXCEPT ![g] = "rejected"]
          /\ cfgPc' = [cfgPc EXCEPT ![g] = "failed"]
          /\ clientWs' = CloseClient(g, clientWs)
     ELSE UNCHANGED <<connectP, cfgPc, clientWs>>
  /\ loop' = [loop EXCEPT ![g] = IF @.pc = "receiving"
                                  THEN [@ EXCEPT !.pc = "exited", !.got = "error"] ELSE @]
  /\ UNCHANGED <<received, frontVars, playerVars, firstFrame, cleanups>>
  /\ UNCHANGED <<connections, cid, configReceived, geminiConn, acked, closeWait, sent,
                 running, nEvents>>

\* "close": the handler of connect() clears connected, a pending receive()
\* resolves with null (the loop breaks), and the handler of a waiting close()
\* clears the fields and lets cleanupConnection delete the registry entry.
UpstreamClose(g) ==
  /\ running = 0
  /\ upstreamWs[g] \in {"OPEN", "CLOSING"}
  /\ upstreamWs' = [upstreamWs EXCEPT ![g] = "CLOSED"]
  /\ geminiConn' = [geminiConn EXCEPT ![g] =
                      IF closeWait[g] THEN FreshConn ELSE [@ EXCEPT !.connected = FALSE]]
  /\ connections' = IF closeWait[g] THEN [connections EXCEPT ![cid[g]] = 0] ELSE connections
  /\ closeWait' = [closeWait EXCEPT ![g] = FALSE]
  /\ loop' = [loop EXCEPT ![g] = IF @.pc = "receiving"
                                  THEN [@ EXCEPT !.pc = "exited", !.got = closeOutcome] ELSE @]
  /\ UNCHANGED <<received, frontVars, playerVars, firstFrame, cleanups>>
  /\ UNCHANGED <<cid, clientWs, configReceived, cfgPc, connectP, acked, sent, running,
                 nEvents>>

----
\* receiveFromGemini.  loop[c].pc is the statement the task runs next;
\* i is the index into functionCalls, k the step inside a handler, the
\* interruption sequence or the parts.

\* Object.prototype members, which toolHandlers[name] also finds.
ObjectPrototype == {"constructor", "toString", "valueOf", "hasOwnProperty", "__proto__"}

\* toolHandlers[name] on the object literal of functions.js.
toolHandlers(name) ==
  CASE name = "write_text" -> "handleWriteText"
    [] name = "end_call" -> "handleEndCall"
    [] name \in ObjectPrototype -> "inherited"
    [] OTHER -> "undefined"

\* A handler that displays before it acknowledges.
HandlerSteps_DisplayFirst(h) ==
  CASE h = "handleWriteText" -> <<"tool_text", "ack">>
    [] h = "handleEndCall" -> <<"end_call", "ack">>
    [] h = "undefined" -> <<"errorAck">>
    [] OTHER -> <<>>

\* What handleToolCall runs for a looked-up value, in order: the handlers
\* acknowledge and then display; a falsy value gets the error response; an
\* inherited member is called and writes nothing.
HandlerSteps(h) ==
  CASE h = "handleWriteText" -> <<"ack", "tool_text">>
    [] h = "handleEndCall" -> <<"ack", "end_call">>
    [] h = "undefined" -> <<"errorAck">>
    [] OTHER -> <<>>

\* A loop that takes the entries from the last to the first.
DispatchOrder_Reversed(calls) == [x \in 1..Len(calls) |-> Len(calls) + 1 - x]

\* The order in which the for-of loop takes the entries of functionCalls.
DispatchOrder(calls) == [x \in 1..Len(calls) |-> x]

\* An interruption branch that tells the client the turn is complete before
\* it has closed the upstream turn.
InterruptSteps_CompleteBeforeEnd == <<"interrupted", "turn_complete", "sendEnd">>

\* The interruption branch, in order.
InterruptSteps == <<"interrupted", "sendEnd", "turn_complete">>

\* A completion test that reads the top-level flag only.
marksComplete_TopOnly(f) == f.turnCompleteTop

\* response.turnComplete || serverContent?.turnComplete
marksComplete(f) == f.turnCompleteTop \/ f.turnCompleteNested

\* A forwarding step that sends the text of a part as it came.
trim_Skipped(t) == t

\* String.prototype.trim on a sequence of characters.
RECURSIVE trim(_)
trim(t) ==
  IF t = <<>> THEN t
  ELSE IF Head(t) = " " THEN trim(Tail(t))
  ELSE IF t[Len(t)] = " " THEN trim(SubSeq(t, 1, Len(t) - 1))
  ELSE t

CurCall(c) == DispatchOrder(loop[c].frame.functionCalls)[loop[c].i]
CurName(c) == loop[c].frame.functionCalls[CurCall(c)]
CurSteps(c) == HandlerSteps(toolHandlers(CurName(c)))
InTool(c) ==
  /\ running \in {0, c}
  /\ loop[c].pc = "tools"
  /\ loop[c].i <= Len(loop[c].frame.functionCalls)

\* while (true): the client check, then receive(), which throws unless isOpen().
LoopTop(c) ==
  /\ running \in {0, c}
  /\ loop[c].pc = "top"
  /\ loop' = [loop EXCEPT ![c].pc =
                IF clientWs[c] = "OPEN" /\ isOpen(c) THEN "receiving" ELSE "exited"]
  /\ running' = 0
  /\ UNCHANGED <<received, frontVars, playerVars, firstFrame, cleanups>>
  /\ UNCHANGED <<connections, cid, clientWs, configReceived, cfgPc, connectP, geminiConn,
                 upstreamWs, acked, closeWait, sent, nEvents>>

\* if (!msg) break, then JSON.parse(msg): the empty message ends the loop, a
\* frame that does not parse is logged and skipped.
LoopParse(c) ==
  /\ running \in {0, c}
  /\ loop[c].pc = "parse"
  /\ loop' = [loop EXCEPT ![c].pc =
                IF loop[c].frame.empty THEN "exited"
                ELSE IF loop[c].frame.parseOk THEN "tools" ELSE "top"]
  /\ running' = IF loop[c].frame.empty THEN 0 ELSE c
  /\ UNCHANGED <<received, frontVars, playerVars, firstFrame, cleanups>>
  /\ UNCHANGED <<connections, cid, clientWs, configReceived, cfgPc, connectP, geminiConn,
                 upstreamWs, acked, closeWait, sent, nEvents>>

\* _sendJson of a tool response: written if isOpen(), else it throws and the
\* catch of the handler (or of handleToolCall) ends the dispatch of this call.
LoopToolAck(c) ==
  /\ InTool(c)
  /\ loop[c].k <= Len(CurSteps(c))
  /\ CurSteps(c)[loop[c].k] \in {"ack", "errorAck"}
  /\ IF isOpen(c)
     THEN /\ sent' = [sent EXCEPT ![c] = Append(@,
                        IF CurSteps(c)[loop[c].k] = "ack"
                        THEN ToolResponse(loop[c].n, CurCall(c), CurName(c))
                        ELSE ToolErrorResponse(loop[c].n, CurCall(c), CurName(c)))]
          /\ loop' = [loop EXCEPT ![c].k = @ + 1]
          /\ running' = 0
     ELSE /\ loop' = [loop EXCEPT ![c].i = @ + 1, ![c].k = 1]
          /\ running' = c
          /\ UNCHANGED sent
  /\ UNCHANGED <<received, frontVars, playerVars, firstFrame, cleanups>>
  /\ UNCHANGED <<connections, cid, clientWs, configReceived, cfgPc, connectP, geminiConn,
                 upstreamWs, acked, closeWait, nEvents>>

\* sendJsonSafe of the display event of write_text or end_call.
LoopToolDisplay(c) ==
  /\ InTool(c)
  /\ loop[c].k <= Len(CurSteps(c))
  /\ CurSteps(c)[loop[c].k] \in {"tool_text", "end_call"}
  /\ sent' = [sent EXCEPT ![c] = sendJsonSafe(c, @,
                Down(CurSteps(c)[loop[c].k], loop[c].n, [id |-> CurCall(c)]))]
  /\ loop' = [loop EXCEPT ![c].k = @ + 1]
  /\ running' = IF clientWs[c] = "OPEN" THEN 0 ELSE c
  /\ UNCHANGED <<received, frontVars, playerVars, firstFrame, cleanups>>
  /\ UNCHANGED <<connections, cid, clientWs, configReceived, cfgPc, connectP, geminiConn,
                 upstreamWs, acked, closeWait, nEvents>>

\* handleToolCall returns: the for-of loop takes the next entry.
LoopToolReturn(c) ==
  /\ InTool(c)
  /\ loop[c].k > Len(CurSteps(c))
  /\ loop' = [loop EXCEPT ![c].i = @ + 1, ![c].k = 1]
  /\ running' = c
  /\ UNCHANGED <<received, frontVars, playerVars, firstFrame, cleanups>>
  /\ UNCHANGED <<connections, cid, clientWs, configReceived, cfgPc, connectP, geminiConn,
                 upstreamWs, acked, closeWait, sent, nEvents>>

\* After the tool calls: the interruption branch, the model content, or the
\* completion flag.
LoopForward(c) ==
  /\ running \in {0, c}
  /\ loop[c].pc = "tools"
  /\ loop[c].i > Len(loop[c].frame.functionCalls)
  /\ LET f == loop[c].frame IN
     loop' = [loop EXCEPT ![c].k = 1, ![c].pc =
                IF f.interruptedTop \/ f.interruptedNested THEN "interrupt"
                ELSE IF f.modelTurn THEN "content" ELSE "turnComplete"]
  /\ running' = c
  /\ UNCHANGED <<received, frontVars, playerVars, firstFrame, cleanups>>
  /\ UNCHANGED <<connections, cid, clientWs, configReceived, cfgPc, connectP, geminiConn,
                 upstreamWs, acked, closeWait, sent, nEvents>>

\* An interruption branch without its continue: the frame goes on to the
\* turnComplete test.
AfterInterrupt_FallsThrough == "turnComplete"

\* continue at the end of the interruption branch: back to the top of the loop.
AfterInterrupt == "top"

\* The interruption branch: the interrupted event, sendEnd(), turn_complete,
\* continue.  sendEnd() throws unless isOpen(); the catch around the
\* forwarding block then ends the processing of the frame.
LoopInterrupt(c) ==
  /\ running \in {0, c}
  /\ loop[c].pc = "interrupt"
  /\ LET k == loop[c].k
         step == IF k <= Len(InterruptSteps) THEN InterruptSteps[k] ELSE "continue"
     IN
     CASE step = "interrupted" ->
            /\ sent' = [sent EXCEPT ![c] = sendJsonSafe(c, @,
                          Down("serverContent", loop[c].n, [interrupted |-> TRUE, turnComplete |-> TRUE]))]
            /\ loop' = [loop EXCEPT ![c].k = @ + 1]
            /\ running' = IF clientWs[c] = "OPEN" THEN 0 ELSE c
       [] step = "sendEnd" ->
            IF isOpen(c)
            THEN /\ sent' = [sent EXCEPT ![c] = Append(@, EndEnvelope(loop[c].n))]
                 /\ loop' = [loop EXCEPT ![c].k = @ + 1]
                 /\ running' = 0
            ELSE /\ loop' = [loop EXCEPT ![c].pc = "top"]
                 /\ running' = c
                 /\ UNCHANGED sent
       [] step = "turn_complete" ->
            /\ sent' = [sent EXCEPT ![c] = sendJsonSafe(c, @,
                          Down("turn_complete", loop[c].n, [data |-> TRUE]))]
            /\ loop' = [loop EXCEPT ![c].k = @ + 1]
            /\ running' = IF clientWs[c] = "OPEN" THEN 0 ELSE c
       [] OTHER ->
            /\ loop' = [loop EXCEPT ![c].pc = AfterInterrupt]
            /\ running' = c
            /\ UNCHANGED sent
  /\ UNCHANGED <<received, frontVars, playerVars, firstFrame, cleanups>>
  /\ UNCHANGED <<connections, cid, clientWs, configReceived, cfgPc, connectP, geminiConn,
                 upstreamWs, acked, closeWait, nEvents>>

\* serverContent.modelTurn: the turnComplete:false notice unless
\* response.turnComplete is set.
LoopContent(c) ==
  /\ running \in {0, c}
  /\ loop[c].pc = "content"
  /\ IF ~loop[c].frame.turnCompleteTop
     THEN /\ sent' = [sent EXCEPT ![c] = sendJsonSafe(c, @,
                        Down("serverContent", loop[c].n, [interrupted |-> FALSE, turnComplete |-> FALSE]))]
          /\ running' = IF clientWs[c] = "OPEN" THEN 0 ELSE c
     ELSE /\ running' = c
          /\ UNCHANGED sent
  /\ loop' = [loop EXCEPT ![c].pc = "parts", ![c].k = 1]
  /\ UNCHANGED <<received, frontVars, playerVars, firstFrame, cleanups>>
  /\ UNCHANGED <<connections, cid, clientWs, configReceived, cfgPc, connectP, geminiConn,
                 upstreamWs, acked, closeWait, nEvents>>

\* for (const p of parts): break when the client is not open; a part with
\* text is forwarded trimmed, with serverContent.turnComplete as its flag.
LoopPart(c) ==
  /\ running \in {0, c}
  /\ loop[c].pc = "parts"
  /\ LET f == loop[c].frame
         k == loop[c].k
     IN
     IF k > Len(f.parts) \/ clientWs[c] # "OPEN"
     THEN /\ loop' = [loop EXCEPT ![c].pc = "turnComplete"]
          /\ running' = c
          /\ UNCHANGED sent
     ELSE IF f.parts[k] # <<>>
     THEN /\ sent' = [sent EXCEPT ![c] = Append(@,
                        Down("text", loop[c].n,
                             [data |-> trim(f.parts[k]), turnComplete |-> f.turnCompleteNested]))]
          /\ loop' = [loop EXCEPT ![c].k = @ + 1]
          /\ running' = 0
     ELSE /\ loop' = [loop EXCEPT ![c].k = @ + 1]
          /\ running' = c
          /\ UNCHANGED sent
  /\ UNCHANGED <<received, frontVars, playerVars, firstFrame, cleanups>>
  /\ UNCHANGED <<connections, cid, clientWs, configReceived, cfgPc, connectP, geminiConn,
                 upstreamWs, acked, closeWait, nEvents>>

\* response.turnComplete || serverContent?.turnComplete: the turn_complete event.
LoopTurnComplete(c) ==
  /\ running \in {0, c}
  /\ loop[c].pc = "turnComplete"
  /\ IF marksComplete(loop[c].frame)
     THEN /\ sent' = [sent EXCEPT ![c] = sendJsonSafe(c, @,
                        Down("turn_complete", loop[c].n, [data |-> TRUE]))]
          /\ running' = IF clientWs[c] = "OPEN" THEN 0 ELSE c
     ELSE /\ running' = c
          /\ UNCHANGED sent
  /\ loop' = [loop EXCEPT ![c].pc = "top"]
  /\ UNCHANGED <<received, frontVars, playerVars, firstFrame, cleanups>>
  /\ UNCHANGED <<connections, cid, clientWs, configReceived, cfgPc, connectP, geminiConn,
                 upstreamWs, acked, closeWait, nEvents>>

----
\* Connection, configuration handshake and teardown of connection c.
Lifecycle(c) ==
  \/ \E id \in ClientIds : Connection(c, id)
  \/ FirstNotConfig(c)
  \/ FirstConfigInvalid(c)
  \/ FirstConfig(c)
  \/ ClientClose(c)
  \/ ClientError(c)
  \/ UpstreamOpen(c)
  \/ UpstreamAck(c)
  \/ UpstreamError(c)
  \/ UpstreamClose(c)
  \/ ReadySent(c)
  \/ LoopTop(c)

\* Content frames of connection c and what the receive loop does with them.
Traffic(c) ==
  \/ \E type \in ClientTypes : ClientFrame(c, type, SampleData(type))
  \/ \E f \in Frames : UpstreamFrame(c, f)
  \/ LoopParse(c)
  \/ LoopToolAck(c)
  \/ LoopToolDisplay(c)
  \/ LoopToolReturn(c)
  \/ LoopForward(c)
  \/ LoopInterrupt(c)
  \/ LoopContent(c)
  \/ LoopPart(c)
  \/ LoopTurnComplete(c)

\* One client connection with its traffic.
Next == Lifecycle(1) \/ Traffic(1)

Spec == Init /\ [][Next]_vars

\* Several client connections, which may share a clientId, without content frames.
RegNext == \E c \in Conns : Lifecycle(c)

RegSpec == Init /\ [][RegNext]_vars

\* One client connection and the frames of its client, with any data, while
\* the service sends nothing after its setup response.
ClientNext == Lifecycle(1) \/ \E type \in ClientTypes : ClientMessage(1, type)

ClientSpec == Init /\ [][ClientNext]_vars

\* The same, with the progress Node and the ws library guarantee: a task
\* whose await has completed runs on, a closing socket gets its "close"
\* event, and a connecting socket opens or fails.  Nothing obliges the
\* client or the service to send or to close.
RelaySteps ==
  \/ ReadySent(1) \/ LoopTop(1) \/ LoopParse(1) \/ LoopToolAck(1) \/ LoopToolDisplay(1)
  \/ LoopToolReturn(1) \/ LoopForward(1) \/ LoopInterrupt(1) \/ LoopContent(1)
  \/ LoopPart(1) \/ LoopTurnComplete(1)

FairSpec ==
  /\ Spec
  /\ WF_vars(RelaySteps)
  /\ WF_vars(clientWs[1] = "CLOSING" /\ ClientClose(1))
  /\ WF_vars(upstreamWs[1] = "CLOSING" /\ UpstreamClose(1))
  /\ WF_vars(UpstreamOpen(1))

\* One client connection whose client sends nothing after its configuration
\* frame: the frames of the service and the receive loop.
ServiceNext == Lifecycle(1) \/ (\E f \in Frames : UpstreamFrame(1, f)) \/ RelaySteps

ServiceSpec == Init /\ [][ServiceNext]_vars

\* The handshake and the teardown of one connection, without content
\* frames, with the same progress.
LifeNext == Lifecycle(1)

FairLifeSpec ==
  /\ Init /\ [][LifeNext]_vars
  /\ WF_vars(ReadySent(1) \/ LoopTop(1))
  /\ WF_vars(clientWs[1] = "CLOSING" /\ ClientClose(1))
  /\ WF_vars(upstreamWs[1] = "CLOSING" /\ UpstreamClose(1))
  /\ WF_vars(UpstreamOpen(1))

\* The same progress for every connection of RegSpec.
FairRegSpec ==
  /\ RegSpec
  /\ \A c \in Conns :
       /\ WF_vars(ReadySent(c) \/ LoopTop(c))
       /\ WF_vars(clientWs[c] = "CLOSING" /\ ClientClose(c))
       /\ WF_vars(upstreamWs[c] = "CLOSING" /\ UpstreamClose(c))
       /\ WF_vars(UpstreamOpen(c))

----
\* GeminiVoiceChat: the call buttons, the socket handlers installed by
\* startCall, and handleServerMessage.

\* enum GeminiState.
GeminiState == {"Idle", "Listening", "Speaking", "Interrupted"}

\* What handleServerMessage tells apart in a message of the relay: its type
\* and, for serverContent, the interrupted and turnComplete flags.
ServerMessages ==
  {[type |-> t, interrupted |-> FALSE, turnComplete |-> FALSE] :
     t \in {"gemini_ready", "text", "tool_text", "end_call", "turn_complete"}}
  \cup {[type |-> "serverContent", interrupted |-> i, turnComplete |-> tc] :
          i \in BOOLEAN, tc \in BOOLEAN}

\* stopCall(): close the socket of wsRef if it is open, drop the reference,
\* reset the state variables.
stopCall ==
  /\ frontWs' = IF wsRef # 0 /\ frontWs[wsRef] = "OPEN"
                THEN [frontWs EXCEPT ![wsRef] = "CLOSING"] ELSE frontWs
  /\ wsRef' = 0
  /\ isStreaming' = FALSE
  /\ geminiReady' = FALSE
  /\ geminiState' = "Idle"

\* The start button (shown while isStreaming is false): startCall returns
\* when wsRef holds an open or connecting socket, else it creates a socket.
StartCall(s) ==
  /\ ~isStreaming
  /\ frontWs[s] = "NONE"
  /\ \A t \in 1..(s - 1) : frontWs[t] # "NONE"
  /\ ~(wsRef # 0 /\ frontWs[wsRef] \in {"OPEN", "CONNECTING"})
  /\ frontWs' = [frontWs EXCEPT ![s] = "CONNECTING"]
  /\ wsRef' = s
  /\ UNCHANGED <<geminiState, geminiReady, isStreaming, readySeen, stopTimers, frontSent,
                 nMessages>>
  /\ UNCHANGED <<relayVars, playerVars>>

\* onopen of socket s: wsRef.current?.send(config), which throws on a
\* connecting socket and writes nothing on a closing or closed one; then
\* setIsStreaming(true) and setGeminiReady(true).
OnOpen(s) ==
  /\ frontWs[s] = "CONNECTING"
  /\ frontWs' = [frontWs EXCEPT ![s] = "OPEN"]
  /\ IF wsRef # 0 /\ wsRef # s /\ frontWs[wsRef] = "CONNECTING"
     THEN UNCHANGED <<frontSent, isStreaming, geminiReady>>
     ELSE /\ frontSent' = IF wsRef # 0 /\ frontWs'[wsRef] = "OPEN"
                          THEN Append(frontSent, <<wsRef, "config">>) ELSE frontSent
          /\ isStreaming' = TRUE
          /\ geminiReady' = TRUE
  /\ UNCHANGED <<geminiState, wsRef, readySeen, stopTimers, nMessages>>
  /\ UNCHANGED <<relayVars, playerVars>>

\* onmessage of socket s: handleServerMessage.
OnMessage(s, m) ==
  /\ frontWs[s] = "OPEN"
  /\ nMessages < MaxMessages
  /\ nMessages' = nMessages + 1
  /\ geminiReady' = IF m.type = "gemini_ready" THEN TRUE ELSE geminiReady
  /\ readySeen' = IF m.type = "gemini_ready" THEN [readySeen EXCEPT ![s] = TRUE] ELSE readySeen
  /\ stopTimers' = IF m.type = "end_call" THEN stopTimers + 1 ELSE stopTimers
  /\ geminiState' =
       CASE m.type \in {"gemini_ready", "turn_complete"} -> "Listening"
         [] m.type = "serverContent" /\ m.interrupted -> "Interrupted"
         [] m.type = "serverContent" /\ ~m.interrupted /\ m.turnComplete -> "Listening"
         [] OTHER -> geminiState
  /\ UNCHANGED <<wsRef, frontWs, isStreaming, frontSent>>
  /\ UNCHANGED <<relayVars, playerVars>>

\* The stop button (shown while isStreaming is true).
StopCall ==
  /\ isStreaming
  /\ stopCall
  /\ UNCHANGED <<readySeen, stopTimers, frontSent, nMessages>>
  /\ UNCHANGED <<relayVars, playerVars>>

\* The timer of an end_call message: setTimeout(() => stopCall(), 5000).
StopTimer ==
  /\ stopTimers > 0
  /\ stopTimers' = stopTimers - 1
  /\ stopCall
  /\ UNCHANGED <<readySeen, frontSent, nMessages>>
  /\ UNCHANGED <<relayVars, playerVars>>

\* onclose of socket s (closed by stopCall, by the relay, or never opened):
\* the socket is closed and stopCall() runs on whatever wsRef holds.
OnClose(s) ==
  /\ frontWs[s] \in {"CONNECTING", "OPEN", "CLOSING"}
  /\ wsRef' = 0
  /\ LET closed == [frontWs EXCEPT ![s] = "CLOSED"] IN
     frontWs' = IF wsRef # 0 /\ closed[wsRef] = "OPEN"
                THEN [closed EXCEPT ![wsRef] = "CLOSING"] ELSE closed
  /\ isStreaming' = FALSE
  /\ geminiReady' = FALSE
  /\ geminiState' = "Idle"
  /\ UNCHANGED <<readySeen, stopTimers, frontSent, nMessages>>
  /\ UNCHANGED <<relayVars, playerVars>>

\* Content frames written so far.
ContentSent == Cardinality({i \in 1..Len(frontSent) : frontSent[i][2] # "config"})

\* sendText with a non-empty text.
SendText ==
  /\ wsRef # 0
  /\ frontWs[wsRef] = "OPEN"
  /\ ContentSent < MaxSent
  /\ frontSent' = Append(frontSent, <<wsRef, "text">>)
  /\ UNCHANGED <<geminiState, wsRef, frontWs, geminiReady, isStreaming, readySeen,
                 stopTimers, nMessages>>
  /\ UNCHANGED <<relayVars, playerVars>>

\* captureAndSendFrame with a canvas and a video element.
CaptureAndSendFrame ==
  /\ geminiReady
  /\ wsRef # 0
  /\ frontWs[wsRef] = "OPEN"
  /\ ContentSent < MaxSent
  /\ frontSent' = Append(frontSent, <<wsRef, "image">>)
  /\ UNCHANGED <<geminiState, wsRef, frontWs, geminiReady, isStreaming, readySeen,
                 stopTimers, nMessages>>
  /\ UNCHANGED <<relayVars, playerVars>>

FrontNext ==
  \/ \E s \in Sockets : StartCall(s)
  \/ \E s \in Sockets : OnOpen(s)
  \/ \E s \in Sockets : \E m \in ServerMessages : OnMessage(s, m)
  \/ \E s \in Sockets : OnClose(s)
  \/ StopCall
  \/ StopTimer
  \/ SendText
  \/ CaptureAndSendFrame

FrontSpec == Init /\ [][FrontNext]_vars

----
\* AudioStreamer.  The record streamer holds the fields of the object
\* (audioQueue, isPlaying, isDisposed, currentSource, lastPlaybackTime), the
\* time at which the timer of playbackTimeout is due (-1 when none is
\* pending), the gain of gainNode, whether onComplete and onInterruption are
\* still the host's functions, the pending setTimeout(playNextBuffer, 0)
\* calls, and what has been done: playback runs begun by addPCM16, calls of
\* the host's callbacks, calls of stop() by the host, segments in the order
\* of source.start(0).
\* A method is an operator from the record (and the sources) to the record
\* after the call.

\* Playing times of a segment, and the period of the stall timer (1000 ms).
Durations == {1, 4}
StallPeriod == 2

\* this.onComplete()
onComplete(p) == [p EXCEPT !.nComplete = IF p.callbacks THEN @ + 1 ELSE @]

\* this.onInterruption()
onInterruption(p) == [p EXCEPT !.nInterruption = IF p.callbacks THEN @ + 1 ELSE @]

\* A playNextBuffer() that starts the head of the queue and leaves it queued.
playNextBuffer_KeepsHead(p) ==
  IF p.isDisposed \/ p.audioQueue = <<>>
  THEN onComplete([p EXCEPT !.isPlaying = FALSE])
  ELSE [p EXCEPT !.lastPlaybackTime = now,
                 !.currentSource = Head(p.audioQueue),
                 !.started = Append(@, Head(p.audioQueue))]

\* playNextBuffer(): with nothing queued (or disposed) playback is over;
\* else the head is dequeued, its source becomes currentSource (the source
\* before it is disconnected, not stopped) and is started.
playNextBuffer(p) ==
  IF p.isDisposed \/ p.audioQueue = <<>>
  THEN onComplete([p EXCEPT !.isPlaying = FALSE])
  ELSE [p EXCEPT !.lastPlaybackTime = now,
                 !.audioQueue = Tail(@),
                 !.currentSource = Head(p.audioQueue),
                 !.started = Append(@, Head(p.audioQueue))]

\* The sources after the call playNextBuffer() on p.
StartHead(p, src) ==
  IF p.isDisposed \/ p.audioQueue = <<>> THEN src
  ELSE [src EXCEPT ![Head(p.audioQueue)] = "playing"]
EndHead(p, ends) ==
  IF p.isDisposed \/ p.audioQueue = <<>> THEN ends
  ELSE [ends EXCEPT ![Head(p.audioQueue)] = now + duration[Head(p.audioQueue)]]

\* checkPlaybackStatus(): the pending timer is cleared and, unless
\* disposed, a new one is set.
checkPlaybackStatus(p) ==
  [p EXCEPT !.playbackTimeout = IF p.isDisposed THEN -1 ELSE now + StallPeriod]

\* A stop() that leaves the stall timer pending.
stop_KeepsTimer(p) ==
  onInterruption([p EXCEPT !.isPlaying = FALSE, !.audioQueue = <<>>,
                           !.currentSource = 0, !.gain = 0])

\* stop(): the queue is emptied, currentSource is stopped and forgotten,
\* the gain is set to 0 and onInterruption is called.
stop(p) ==
  onInterruption([p EXCEPT !.isPlaying = FALSE, !.playbackTimeout = -1, !.audioQueue = <<>>,
                           !.currentSource = 0, !.gain = 0])

\* The sources after stop() on p: the queued segments are discarded, and a
\* stopped source that was playing will fire its ended event.
StopSources(p, src) ==
  [s \in Segs |->
     IF \E i \in 1..Len(p.audioQueue) : p.audioQueue[i] = s THEN "discarded"
     ELSE IF s = p.currentSource /\ src[s] = "playing" THEN "halting"
     ELSE src[s]]

\* addPCM16(chunk) with a chunk of the given playing time.
AddPCM16(d) ==
  /\ nSegs < MaxSegs
  /\ IF streamer.isDisposed
     THEN UNCHANGED playerVars
     ELSE LET seg == nSegs + 1
              queued == [streamer EXCEPT !.gain = 1, !.audioQueue = Append(@, seg)]
              begun == [queued EXCEPT !.isPlaying = TRUE, !.lastPlaybackTime = now,
                                      !.runs = @ + 1]
          IN
          /\ nSegs' = seg
          /\ duration' = [duration EXCEPT ![seg] = d]
          /\ IF streamer.isPlaying
             THEN /\ streamer' = checkPlaybackStatus(queued)
                  /\ source' = [source EXCEPT ![seg] = "queued"]
                  /\ UNCHANGED endsAt
             ELSE /\ streamer' = checkPlaybackStatus(playNextBuffer(begun))
                  /\ source' = StartHead(begun, [source EXCEPT ![seg] = "queued"])
                  /\ endsAt' = [endsAt EXCEPT ![Head(begun.audioQueue)] =
                                   now + (IF Head(begun.audioQueue) = seg THEN d
                                          ELSE duration[Head(begun.audioQueue)])]
          /\ UNCHANGED now
  /\ UNCHANGED <<relayVars, frontVars>>

\* The time of the latest source.start(0).
LastStart(p) ==
  IF p.started = <<>> THEN 0
  ELSE endsAt[p.started[Len(p.started)]] - duration[p.started[Len(p.started)]]

\* A stall test that measures from the latest source.start(0).
stalled_SinceStart(p) ==
  /\ now - LastStart(p) > StallPeriod
  /\ p.audioQueue # <<>>
  /\ p.isPlaying

\* The test of the timer callback: timeSinceLast > 1.0 with segments queued
\* and isPlaying set, measured from lastPlaybackTime (set by addPCM16 when
\* it starts a run, by playNextBuffer and by onended).
stalled(p) ==
  /\ now - p.lastPlaybackTime > StallPeriod
  /\ p.audioQueue # <<>>
  /\ p.isPlaying

\* The callback of the stall timer: a restart through playNextBuffer() when
\* more than one second has passed since lastPlaybackTime with segments
\* queued and isPlaying set; then the timer is set again while playing.
StallTick ==
  /\ streamer.playbackTimeout >= 0
  /\ now >= streamer.playbackTimeout
  /\ LET fired == [streamer EXCEPT !.playbackTimeout = -1]
         played == IF stalled(fired) THEN playNextBuffer(fired) ELSE fired
     IN
     /\ streamer' = IF played.isPlaying /\ ~played.isDisposed
                    THEN checkPlaybackStatus(played) ELSE played
     /\ source' = IF stalled(fired) THEN StartHead(fired, source) ELSE source
     /\ endsAt' = IF stalled(fired) THEN EndHead(fired, endsAt) ELSE endsAt
  /\ UNCHANGED <<duration, now, nSegs>>
  /\ UNCHANGED <<relayVars, frontVars>>

\* source.onended of segment s, after it has played to its end or was
\* stopped: with segments queued an advance is scheduled, else playback is
\* over and onComplete is called.
OnEnded(s) ==
  /\ (source[s] = "playing" /\ now >= endsAt[s]) \/ source[s] = "halting"
  /\ source' = [source EXCEPT ![s] = "ended"]
  /\ streamer' =
       IF streamer.isDisposed THEN streamer
       ELSE LET p == [streamer EXCEPT !.lastPlaybackTime = now] IN
            IF p.audioQueue # <<>>
            THEN [p EXCEPT !.advances = @ + 1]
            ELSE onComplete([p EXCEPT !.isPlaying = FALSE])
  /\ UNCHANGED <<duration, endsAt, now, nSegs>>
  /\ UNCHANGED <<relayVars, frontVars>>

\* The callback of setTimeout(() => this.playNextBuffer(), 0).
Advance ==
  /\ streamer.advances > 0
  /\ LET p == [streamer EXCEPT !.advances = @ - 1] IN
     /\ streamer' = playNextBuffer(p)
     /\ source' = StartHead(p, source)
     /\ endsAt' = EndHead(p, endsAt)
  /\ UNCHANGED <<duration, now, nSegs>>
  /\ UNCHANGED <<relayVars, frontVars>>

\* stop(), called by the host.
Stop ==
  /\ streamer.nStops < MaxStops
  /\ streamer' = [stop(streamer) EXCEPT !.nStops = @ + 1]
  /\ source' = StopSources(streamer, source)
  /\ UNCHANGED <<duration, endsAt, now, nSegs>>
  /\ UNCHANGED <<relayVars, frontVars>>

\* resume(): the gain is set back to 1 unless disposed.
Resume ==
  /\ streamer' = IF streamer.isDisposed THEN streamer ELSE [streamer EXCEPT !.gain = 1]
  /\ UNCHANGED <<source, duration, endsAt, now, nSegs>>
  /\ UNCHANGED <<relayVars, frontVars>>

\* dispose() that leaves the host's callbacks assigned.
Dispose_KeepsCallbacks ==
  /\ IF streamer.isDisposed
     THEN UNCHANGED <<streamer, source>>
     ELSE /\ streamer' = stop([streamer EXCEPT !.isDisposed = TRUE])
          /\ source' = StopSources(streamer, source)
  /\ UNCHANGED <<duration, endsAt, now, nSegs>>
  /\ UNCHANGED <<relayVars, frontVars>>

\* dispose(): isDisposed is set, stop() runs with the host's callbacks still
\* assigned, then the callbacks are replaced by empty functions.
Dispose ==
  /\ IF streamer.isDisposed
     THEN UNCHANGED <<streamer, source>>
     ELSE /\ streamer' = [stop([streamer EXCEPT !.isDisposed = TRUE]) EXCEPT !.callbacks = FALSE]
          /\ source' = StopSources(streamer, source)
  /\ UNCHANGED <<duration, endsAt, now, nSegs>>
  /\ UNCHANGED <<relayVars, frontVars>>

\* An event of the audio engine or a timer is due.
EventDue ==
  \/ (streamer.playbackTimeout >= 0 /\ now >= streamer.playbackTimeout)
  \/ streamer.advances > 0
  \/ \E s \in Segs : (source[s] = "playing" /\ now >= endsAt[s]) \/ source[s] = "halting"

\* Half a second passes; events that are due are handled first.
Clock ==
  /\ now < MaxTime
  /\ ~EventDue
  /\ now' = now + 1
  /\ UNCHANGED <<streamer, source, duration, endsAt, nSegs>>
  /\ UNCHANGED <<relayVars, frontVars>>

PlayNext ==
  \/ \E d \in Durations : AddPCM16(d)
  \/ StallTick
  \/ \E s \in Segs : OnEnded(s)
  \/ Advance
  \/ Stop
  \/ Resume
  \/ Dispose
  \/ Clock

PlaySpec == Init /\ [][PlayNext]_vars

----
\* Reading the log of written frames.
Log(c) == 1..Len(sent[c])
IsResponse(e, n, i) == e.to = "up" /\ e.type = "tool_response" /\ e.fr = n /\ e.body.id = i
IsDisplay(e) == e.to = "client" /\ e.type \in {"tool_text", "end_call"}
IsClientContent(e) == e.to = "up" /\ e.type = "client_content" /\ e.fr = 0
IsInterrupted(e, n) ==
  e.to = "client" /\ e.type = "serverContent" /\ e.fr = n /\ e.body.interrupted
IsForcedEnd(e, n) == e.to = "up" /\ e.type = "client_content" /\ e.fr = n
IsTurnComplete(e, n) == e.to = "client" /\ e.type = "turn_complete" /\ e.fr = n
IsReady(e) == e.to = "client" /\ e.type = "gemini_ready"
IsSetup(e) == e.to = "up" /\ e.type = "setup"
\* The step appends a frame to the log of connection c.
Wrote(c) == Len(sent'[c]) > Len(sent[c])
Written(c) == sent'[c][Len(sent'[c])]

\* connections holds the entry of connection c.
InRegistry(c) == cid[c] # 0 /\ connections[cid[c]] = c

\* The receive loop is past the functionCalls of the frame it holds.
PastTools(c) == loop[c].n > 0 /\ loop[c].frame.parseOk /\ loop[c].pc \notin {"parse", "tools"}
\* The receive loop is through with the frame it holds.
FrameDone(c) == loop[c].n > 0 /\ loop[c].pc \in {"top", "receiving", "exited"}

\* C1: no content frame of the client is written to the upstream socket
\* before connect() has resolved with the setup acknowledgment.
C1_NoContentBeforeAck ==
  \A c \in Conns :
    connectP[c] # "resolved" => \A j \in Log(c) : ~IsClientContent(sent[c][j])

\* C2: for every clientId at most one upstream socket is live (opened and
\* not yet closed), also when a second connection repeats the clientId.
C2_AtMostOneLiveUpstream ==
  \A id \in ClientIds :
    Cardinality({c \in Conns : cid[c] = id /\ upstreamWs[c] \in {"OPEN", "CLOSING"}}) <= 1

\* C3: once the client socket of a session is closed, the upstream socket of
\* the session is eventually closed and the registry eventually holds no
\* entry for the session.
C3_ClientCloseCleansUp ==
  [](clientWs[1] = "CLOSED" =>
       <>(upstreamWs[1] \in {"NONE", "CLOSED"} /\ ~InRegistry(1)))

\* C4: once the receive loop has exited because the upstream socket closed
\* or failed, the session is eventually removed from the registry.
C4_UpstreamCloseDestroysSession ==
  [](loop[1].pc = "exited" /\ upstreamWs[1] \in {"CLOSING", "CLOSED"} =>
       <>(~InRegistry(1)))

\* C5: every entry of a functionCalls list yields exactly one tool response
\* on the upstream socket, whatever its name.
C5_ExactlyOneResponse ==
  \A c \in Conns :
    PastTools(c) =>
      \A i \in 1..Len(loop[c].frame.functionCalls) :
        Cardinality({j \in Log(c) : IsResponse(sent[c][j], loop[c].n, i)}) = 1

\* C6: the entries of functionCalls are dispatched one at a time in array
\* order: a tool response is written only while its own entry is being
\* dispatched, the entry at the position the loop has reached, so the
\* responses of a frame are written in array order and the response of an
\* entry precedes the dispatch of the next.
C6_ResponsesInArrayOrder ==
  [][\A c \in Conns :
       (Len(sent'[c]) > Len(sent[c]) /\ sent'[c][Len(sent'[c])].type = "tool_response") =>
         LET e == sent'[c][Len(sent'[c])] IN
         /\ loop[c].pc = "tools"
         /\ e.fr = loop[c].n
         /\ e.body.id = loop[c].i
         /\ e.body.name = loop[c].frame.functionCalls[loop[c].i]
         /\ \A j \in Log(c) : ~(\E i \in e.body.id..Len(loop[c].frame.functionCalls) :
                                  IsResponse(sent[c][j], e.fr, i))]_vars

C6_Witness ==
  \E c \in Conns : \E j1, j2 \in Log(c) :
    /\ j1 < j2
    /\ IsResponse(sent[c][j1], loop[c].n, 1)
    /\ IsResponse(sent[c][j2], loop[c].n, 2)

\* C7: the display event of a write_text or end_call call is written to
\* the client only after the tool response of that call was written upstream.
C7_AckBeforeDisplay ==
  \A c \in Conns : \A j \in Log(c) :
    IsDisplay(sent[c][j]) =>
      \E a \in 1..(j - 1) : IsResponse(sent[c][a], sent[c][j].fr, sent[c][j].body.id)

C7_Witness ==
  \E c \in Conns : \E j1, j2 \in Log(c) :
    /\ sent[c][j1].to = "client" /\ sent[c][j1].type = "tool_text"
    /\ sent[c][j2].to = "client" /\ sent[c][j2].type = "end_call"

\* C8: a call whose name has no registered handler yields one tool response
\* with its id, its name and the error "Tool not implemented: <name>", and
\* no display event.
C8_UnknownToolAnswered ==
  \A c \in Conns :
    PastTools(c) =>
      \A i \in 1..Len(loop[c].frame.functionCalls) :
        LET name == loop[c].frame.functionCalls[i] IN
        name \notin {"write_text", "end_call"} =>
          /\ Cardinality({j \in Log(c) : IsResponse(sent[c][j], loop[c].n, i)}) = 1
          /\ \A j \in Log(c) :
               IsResponse(sent[c][j], loop[c].n, i) =>
                 sent[c][j] = ToolErrorResponse(loop[c].n, i, name)
          /\ \A j \in Log(c) :
               ~(IsDisplay(sent[c][j]) /\ sent[c][j].fr = loop[c].n /\ sent[c][j].body.id = i)

\* C9: for a frame with the interruption flag, top-level or nested, the
\* turn_complete event written for it comes after the interrupted event,
\* and the forced sendEnd() is written between the two.
C9_InterruptedThenEndThenComplete ==
  \A c \in Conns :
    (loop[c].frame.interruptedTop \/ loop[c].frame.interruptedNested) =>
      \A j3 \in Log(c) :
        IsTurnComplete(sent[c][j3], loop[c].n) =>
          \E j1, j2 \in Log(c) :
            /\ j1 < j2 /\ j2 < j3
            /\ IsInterrupted(sent[c][j1], loop[c].n)
            /\ IsForcedEnd(sent[c][j2], loop[c].n)

C9_Witness ==
  \E c \in Conns :
    /\ loop[c].frame.interruptedTop
    /\ \E j \in Log(c) : IsTurnComplete(sent[c][j], loop[c].n)

\* C10: when the relay has written the interrupted event of a frame to a
\* client whose socket stays open, it also writes the turn_complete event
\* that takes the client back to Listening.
C10_InterruptedIsFollowedByComplete ==
  \A c \in Conns :
    (FrameDone(c) /\ clientWs[c] = "OPEN") =>
      ((\E j \in Log(c) : IsInterrupted(sent[c][j], loop[c].n)) =>
         (\E j \in Log(c) : IsTurnComplete(sent[c][j], loop[c].n)))

\* C11: when the first frame of a connection is not a configuration frame,
\* the client socket is closed, no upstream socket is ever created for the
\* connection, no gemini_ready is written and nothing is written upstream.
C11_WrongFirstFrameEndsSession ==
  \A c \in Conns :
    firstFrame[c] = "other" =>
      /\ clientWs[c] # "OPEN"
      /\ upstreamWs[c] = "NONE"
      /\ sent[c] = <<>>

\* C12: once the configuration handler has failed (invalid configuration,
\* or connect() rejected) the client socket is no longer open, no
\* gemini_ready has been or is written, receiveFromGemini is not started and
\* no later frame is written to either socket.
C12_FailedConfigurationEndsSession ==
  [][\A c \in Conns :
       cfgPc'[c] = "failed" =>
         /\ clientWs'[c] # "OPEN"
         /\ loop'[c].pc = "notStarted"
         /\ \A j \in 1..Len(sent'[c]) : ~IsReady(sent'[c][j])
         /\ cfgPc[c] = "failed" => sent'[c] = sent[c]]_vars

C12_Witness ==
  /\ cfgPc[1] = "failed"
  /\ connectP[1] = "rejected"
  /\ clientWs[1] = "CLOSING"
  /\ nEvents > 0

\* C13: gemini_ready is written at most once per connection, and only when
\* the upstream socket is open, the setup frame was written and the setup
\* response has arrived; receiveFromGemini starts only after connect() has
\* resolved with that response.
C13_ReadyOnceAfterAck ==
  [][\A c \in Conns :
       /\ (Wrote(c) /\ IsReady(Written(c))) =>
            /\ acked'[c]
            /\ upstreamWs[c] = "OPEN"
            /\ \E j \in Log(c) : IsSetup(sent[c][j])
            /\ \A j \in Log(c) : ~IsReady(sent[c][j])
            /\ loop[c].pc = "notStarted"
       /\ (loop[c].pc = "notStarted" /\ loop'[c].pc # "notStarted") =>
            /\ connectP'[c] = "resolved"
            /\ acked'[c]
            /\ \E j \in Log(c) : IsSetup(sent[c][j])]_vars

C13_Witness ==
  /\ loop[1].pc = "receiving"
  /\ \E j \in Log(1) : IsReady(sent[1][j])

\* The receive loop of connection c has called _sendJson (a tool response or
\* the forced sendEnd) and waits for the callback of ws.send.
LoopSending(c) ==
  /\ running = 0
  /\ \/ /\ loop[c].pc = "tools"
        /\ loop[c].i <= Len(loop[c].frame.functionCalls)
        /\ loop[c].k > 1
        /\ CurSteps(c)[loop[c].k - 1] \in {"ack", "errorAck"}
     \/ /\ loop[c].pc = "interrupt"
        /\ loop[c].k = 3

\* C14: a frame is written to the upstream socket only when no earlier
\* upstream send of the connection still waits for its callback.
C14_UpstreamSendsSerialized ==
  [][\A c \in Conns :
       (Wrote(c) /\ Written(c).to = "up") => ~LoopSending(c)]_vars

\* C15: a run of cleanupConnection that follows an earlier run for the same
\* connection ends in the state one run establishes: if the earlier run has
\* finished it changes nothing, if the earlier run still waits for the
\* "close" event the fields are cleared and the registry entry is removed at
\* once and the waiting run later finds them so; every waiting run finishes.
C15_CleanupIdempotent ==
  /\ [][\A c \in Conns :
          /\ (cleanups'[c] > cleanups[c] /\ cleanups[c] >= 1) =>
               IF closeWait[c]
               THEN /\ geminiConn'[c] = FreshConn
                    /\ connections'[cid[c]] = 0
                    /\ upstreamWs'[c] = upstreamWs[c]
                    /\ closeWait'[c]
               ELSE UNCHANGED <<geminiConn, connections, upstreamWs, closeWait>>
          /\ (closeWait[c] /\ ~closeWait'[c]) =>
               /\ geminiConn'[c] = FreshConn
               /\ connections'[cid[c]] = 0
               /\ upstreamWs'[c] = "CLOSED"]_vars
  /\ \A c \in Conns : closeWait[c] ~> ~closeWait[c]

C15_Witness == cleanups[1] = 2 /\ closeWait[1]

\* C16: when the upstream socket has closed before the setup response
\* arrived, the promise of connect() is eventually rejected.
C16_ConnectFailsWhenClosedBeforeAck ==
  [](upstreamWs[1] = "CLOSED" /\ ~acked[1] => <>(connectP[1] = "rejected"))

\* C17: once the client socket of a connection is closed, its receive loop
\* eventually is not running (it has exited, or was never started).
C17_LoopExitsAfterClientClose ==
  \A c \in Conns :
    [](clientWs[c] = "CLOSED" => <>(loop[c].pc \in {"notStarted", "exited"}))

\* C18: a frame that JSON.parse rejects is skipped: the loop writes nothing
\* to either socket, leaves the registry and the sockets alone, returns to
\* the top of the loop and, with both sockets open, receives again.
C18_UnparsableFrameSkipped ==
  [][\A c \in Conns :
       (~loop[c].frame.parseOk /\ loop[c].n > 0 /\ loop'[c] # loop[c]) =>
         /\ loop[c].pc = "parse" =>
              /\ loop'[c].pc = "top"
              /\ UNCHANGED <<sent, connections, clientWs, upstreamWs, geminiConn>>
         /\ (loop[c].pc = "top" /\ clientWs[c] = "OPEN" /\ isOpen(c)) =>
              /\ loop'[c].pc = "receiving"
              /\ UNCHANGED <<sent, connections, clientWs, upstreamWs, geminiConn>>]_vars

\* C19: the turn state leaves Interrupted only for Listening, and never
\* goes from Idle to Speaking or from Speaking to Idle.
C19_TurnTransitions ==
  [][/\ (geminiState = "Interrupted" /\ geminiState' # "Interrupted") => geminiState' = "Listening"
     /\ ~(geminiState = "Idle" /\ geminiState' = "Speaking")
     /\ ~(geminiState = "Speaking" /\ geminiState' = "Idle")]_vars

\* Every segment handed to addPCM16 has played to its end.
AllEnded == \A s \in 1..nSegs : source[s] = "ended"

\* C20: in a single playback run (every segment after the first enqueued
\* while isPlaying was set) without stop() or dispose(), onComplete is called
\* at most once, and not while a segment enqueued so far has yet to end.
C20_CompleteOnceAfterLast ==
  (streamer.runs = 1 /\ streamer.nInterruption = 0 /\ ~streamer.isDisposed) =>
    /\ streamer.nComplete <= 1
    /\ streamer.nComplete = 1 => AllEnded

\* The step is a call of stop() by the host.
StopCalled == streamer'.nStops = streamer.nStops + 1

\* C21: stop() while a segment is playing leaves the queue empty and
\* isPlaying false and calls onInterruption exactly once, and the ended
\* event of the segment it halted does not call onComplete.
C21_StopSilencesCompletion ==
  [][/\ (/\ StopCalled
         /\ streamer.currentSource # 0
         /\ source[streamer.currentSource] = "playing"
         /\ streamer.callbacks) =>
          /\ streamer'.audioQueue = <<>>
          /\ ~streamer'.isPlaying
          /\ streamer'.nInterruption = streamer.nInterruption + 1
          /\ streamer'.nComplete = streamer.nComplete
     /\ \A s \in Segs :
          (source[s] = "halting" /\ source'[s] = "ended") =>
             streamer'.nComplete = streamer.nComplete]_vars

\* The step is the callback of the stall timer.
TickFires ==
  /\ streamer.playbackTimeout >= 0
  /\ now >= streamer.playbackTimeout
  /\ streamer'.playbackTimeout # streamer.playbackTimeout
  /\ nSegs' = nSegs
  /\ streamer'.nStops = streamer.nStops
  /\ streamer'.isDisposed = streamer.isDisposed

\* The tick dequeues the head segment and starts it.
TickAdvances ==
  /\ streamer.audioQueue # <<>>
  /\ streamer'.audioQueue = Tail(streamer.audioQueue)
  /\ streamer'.currentSource = Head(streamer.audioQueue)
  /\ source'[Head(streamer.audioQueue)] = "playing"

\* The tick leaves the queue and the sources as they are.
TickHolds ==
  /\ streamer'.audioQueue = streamer.audioQueue
  /\ streamer'.currentSource = streamer.currentSource
  /\ source' = source

C23_DisposeIsTerminal ==
  [][streamer.isDisposed =>
       /\ streamer'.isDisposed
       /\ streamer'.audioQueue = <<>>
       /\ ~streamer'.isPlaying
       /\ streamer'.currentSource = 0
       /\ streamer'.playbackTimeout = -1
       /\ streamer'.audioQueue = streamer.audioQueue
       /\ streamer'.isPlaying = streamer.isPlaying
       /\ streamer'.currentSource = streamer.currentSource
       /\ streamer'.playbackTimeout = streamer.playbackTimeout
       /\ streamer'.gain = streamer.gain
       /\ streamer'.lastPlaybackTime = streamer.lastPlaybackTime
       /\ streamer'.started = streamer.started
       /\ streamer'.nComplete = streamer.nComplete
       /\ streamer'.nInterruption = streamer.nInterruption
       /\ \A s \in Segs : source'[s] = "playing" => source[s] = "playing"]_vars

\* The segment dispose() halted has fired its ended event after dispose()
\* returned, and stop() was called after it too.
C23_Witness ==
  /\ streamer.isDisposed
  /\ streamer.nStops = 1
  /\ streamer.nInterruption = 1
  /\ \E s \in Segs : source[s] = "ended" /\ endsAt[s] > now

\* The step is the message handler of connection c taking a later frame of
\* the given type.
Handles(c, type) ==
  /\ received'.n = nEvents'
  /\ received'.n # received.n
  /\ received'.conn = c
  /\ received'.type = type

\* C24: a text frame handled after connect() has resolved and while the
\* upstream connection is open writes exactly one frame, to the upstream
\* socket: a client_content envelope with turn_complete true whose only
\* part is a text part with the data of the frame.
C24_TextFrameOneEnvelope ==
  [][\A c \in Conns :
       (Handles(c, "text") /\ connectP[c] = "resolved" /\ isOpen(c)) =>
          /\ Len(sent'[c]) = Len(sent[c]) + 1
          /\ SubSeq(sent'[c], 1, Len(sent[c])) = sent[c]
          /\ LET e == sent'[c][Len(sent'[c])] IN
             /\ e.to = "up"
             /\ e.type = "client_content"
             /\ e.body.turn_complete
             /\ e.body.parts = <<[text |-> received'.data]>>]_vars

\* Both text frames have been written to the upstream socket, in order.
C24_Witness ==
  /\ connectP[1] = "resolved"
  /\ \E i, j \in 1..Len(sent[1]) :
       /\ i < j
       /\ IsClientContent(sent[1][i]) /\ sent[1][i].body.parts = <<[text |-> "chau"]>>
       /\ IsClientContent(sent[1][j]) /\ sent[1][j].body.parts = <<[text |-> "hola"]>>

\* C25: a "config" frame handled after the first one changes neither the
\* stored configuration nor the upstream connection, writes nothing to the
\* upstream socket or to the client, and leaves the client socket and the
\* registry as they are.
C25_LaterConfigIgnored ==
  [][\A c \in Conns :
       Handles(c, "config") =>
         UNCHANGED <<geminiConn, upstreamWs, connectP, cfgPc, configReceived, acked, sent,
                     clientWs, connections, closeWait, loop>>]_vars

\* A second "config" frame was handled on a session that is still ready.
C25_Witness ==
  /\ received.type = "config"
  /\ received.conn = 1
  /\ connectP[1] = "resolved"
  /\ isOpen(1)
  /\ clientWs[1] = "OPEN"
  /\ \E i \in 1..Len(sent[1]) : IsReady(sent[1][i])

\* The step is the arrival of a frame of the service on the upstream socket.
FrameArrives == nEvents' = nEvents + 1 /\ received' = received

\* C26: a frame of the service that arrives after the setup response, with
\* the client socket and the upstream connection open, is returned by a
\* receive() call of the loop: the socket keeps no frame for a later
\* receive(), so a receive() is pending when the frame arrives.
C26_NoFrameLost ==
  [][(FrameArrives /\ acked[1] /\ clientWs[1] = "OPEN" /\ isOpen(1)) =>
       loop'[1].n = loop[1].n + 1]_vars

\* C27: the cleanup run by the close or error event of a client socket
\* closes the upstream connection created for that socket, and leaves the
\* upstream connection of every other client socket as it is, also when
\* both connections gave the same clientId.
C27_CleanupClosesOwnUpstream ==
  [][\A c \in Conns :
       cleanups'[c] = cleanups[c] + 1 =>
         /\ isOpen(c) => upstreamWs'[c] = "CLOSING"
         /\ \A d \in Conns \ {c} :
              /\ upstreamWs'[d] = upstreamWs[d]
              /\ geminiConn'[d] = geminiConn[d]
              /\ closeWait'[d] = closeWait[d]]_vars

\* C28: for a frame with the interruption flag, top-level or nested, the
\* relay writes to the client no text event, no turnComplete:false notice
\* and at most one turn_complete event.
C28_InterruptionEndsFrame ==
  \A c \in Conns :
    (loop[c].frame.interruptedTop \/ loop[c].frame.interruptedNested) =>
      /\ \A j \in Log(c) :
           (sent[c][j].to = "client" /\ sent[c][j].fr = loop[c].n) =>
              /\ sent[c][j].type # "text"
              /\ sent[c][j].type = "serverContent" => sent[c][j].body.interrupted
      /\ Cardinality({j \in Log(c) : IsTurnComplete(sent[c][j], loop[c].n)}) <= 1

\* The loop is through with an interrupted frame that also carries a model
\* turn with text and the nested turnComplete flag, and has written its
\* turn_complete event.
C28_Witness ==
  \E c \in Conns :
    /\ loop[c].frame.interruptedNested
    /\ loop[c].frame.modelTurn
    /\ loop[c].frame.turnCompleteNested
    /\ FrameDone(c)
    /\ \E j \in Log(c) : IsTurnComplete(sent[c][j], loop[c].n)

\* The turnComplete:false notice and a text event of frame n.
IsNotice(e, n) ==
  e.to = "client" /\ e.type = "serverContent" /\ e.fr = n /\ ~e.body.interrupted
IsText(e, n) == e.to = "client" /\ e.type = "text" /\ e.fr = n

\* C29: for a frame with a model turn and no interruption flag, the
\* turnComplete:false notice is written only when the frame carries no
\* turnComplete flag, top-level or nested, it is written before every text
\* event of the frame, and no text event of such a frame goes without it.
C29_NoticeIffTurnOpen ==
  \A c \in Conns :
    LET f == loop[c].frame
        n == loop[c].n
    IN
    (f.modelTurn /\ ~f.interruptedTop /\ ~f.interruptedNested) =>
      /\ \A j \in Log(c) :
           IsNotice(sent[c][j], n) =>
             /\ ~(f.turnCompleteTop \/ f.turnCompleteNested)
             /\ \A i \in Log(c) : IsText(sent[c][i], n) => j < i
      /\ (~(f.turnCompleteTop \/ f.turnCompleteNested)
            /\ \E i \in Log(c) : IsText(sent[c][i], n)) =>
           \E j \in Log(c) : IsNotice(sent[c][j], n)

\* C30: every text or image frame the browser has sent went out on a
\* socket on which gemini_ready had been received.
C30_NoContentBeforeReady ==
  \A i \in 1..Len(frontSent) :
    frontSent[i][2] \in {"text", "image"} => readySeen[frontSent[i][1]]

\* The indices of the log of c that hold text events of frame n, and the
\* texts of these events in the order of the log.
TextsAt(c, n) == {j \in Log(c) : IsText(sent[c][j], n)}
RECURSIVE TextsFrom(_, _, _)
TextsFrom(c, n, j) ==
  IF j > Len(sent[c]) THEN <<>>
  ELSE IF IsText(sent[c][j], n) THEN <<sent[c][j].body.data>> \o TextsFrom(c, n, j + 1)
  ELSE TextsFrom(c, n, j + 1)

\* The frame the loop holds has no interruption flag.
Uninterrupted(c) == ~loop[c].frame.interruptedTop /\ ~loop[c].frame.interruptedNested

\* C31: for a frame with a turnComplete flag, top-level or nested, and no
\* interruption flag, the relay writes at most one turn_complete event, after
\* every text event of the frame, and with the client socket open to the end
\* of the frame it writes exactly one.
C31_OneTurnCompleteAfterTexts ==
  \A c \in Conns :
    LET f == loop[c].frame
        n == loop[c].n
        done == {j \in Log(c) : IsTurnComplete(sent[c][j], n)}
    IN
    (n > 0 /\ f.parseOk /\ Uninterrupted(c) /\ (f.turnCompleteTop \/ f.turnCompleteNested)) =>
      /\ Cardinality(done) <= 1
      /\ \A j \in done : \A i \in TextsAt(c, n) : i < j
      /\ (FrameDone(c) /\ clientWs[c] = "OPEN") => Cardinality(done) = 1

\* The loop is through with a frame that has text parts and only the nested
\* turnComplete flag, and the client has its texts and its turn_complete.
C31_Witness ==
  \E c \in Conns :
    /\ FrameDone(c)
    /\ Uninterrupted(c)
    /\ loop[c].frame.turnCompleteNested /\ ~loop[c].frame.turnCompleteTop
    /\ Cardinality(TextsAt(c, loop[c].n)) = 2
    /\ \E j \in Log(c) : IsTurnComplete(sent[c][j], loop[c].n)

\* The parts of a model turn that have text.
WithText(parts) == SelectSeq(parts, LAMBDA p : p # <<>>)

\* t is p without its leading and trailing spaces.
IsTrimOf(t, p) ==
  /\ t # <<>> => (t[1] # " " /\ t[Len(t)] # " ")
  /\ \E a, b \in 0..Len(p) :
       /\ a + Len(t) + b = Len(p)
       /\ SubSeq(p, a + 1, a + Len(t)) = t
       /\ \A i \in (1..a) \cup ((Len(p) - b + 1)..Len(p)) : p[i] = " "

\* C32: the text events written for a model-content frame are, in order,
\* the trimmed texts of the first parts that have text, and with the client
\* socket open to the end of the frame they cover every such part; a part
\* without text gives no event.
C32_TextsFollowParts ==
  \A c \in Conns :
    LET f == loop[c].frame
        texts == TextsFrom(c, loop[c].n, 1)
        parts == WithText(f.parts)
    IN
    (loop[c].n > 0 /\ f.parseOk /\ f.modelTurn /\ Uninterrupted(c)) =>
      /\ Len(texts) <= Len(parts)
      /\ \A i \in 1..Len(texts) : IsTrimOf(texts[i], parts[i])
      /\ (FrameDone(c) /\ clientWs[c] = "OPEN") => Len(texts) = Len(parts)

\* The loop is through with a frame of three parts, one of them without
\* text and one with spaces around its text, and the client socket is open.
C32_Witness ==
  \E c \in Conns :
    /\ FrameDone(c)
    /\ clientWs[c] = "OPEN"
    /\ loop[c].frame.modelTurn
    /\ Uninterrupted(c)
    /\ Len(loop[c].frame.parts) = 3
    /\ TextsFrom(c, loop[c].n, 1) = <<<<"b">>, <<"a">>>>

\* The sender each type of content frame goes through.
SenderOf(type) ==
  CASE type = "text" -> "sendText"
    [] type = "image" -> "sendImage"
    [] type = "continue" -> "sendContinue"
    [] OTHER -> "sendEnd"

\* C33: the envelope of a content frame that is forwarded is written to the
\* upstream socket in the step that handles the frame, behind everything
\* written before, so the envelopes of two frames are written in the order
\* in which the frames were handled.
C33_ForwardedInArrivalOrder ==
  [][\A c \in Conns : \A type \in {"text", "image", "continue", "end"} :
       (Handles(c, type) /\ isOpen(c)) =>
          /\ Len(sent'[c]) = Len(sent[c]) + 1
          /\ SubSeq(sent'[c], 1, Len(sent[c])) = sent[c]
          /\ Written(c).to = "up"
          /\ Written(c).type = "client_content"
          /\ Written(c).body.via = SenderOf(type)]_vars

\* An image frame and then a text frame were handled, and their envelopes
\* are the last two of the log, in that order.
C33_Witness ==
  /\ received.type = "text"
  /\ received.n = 2
  /\ Len(sent[1]) >= 2
  /\ sent[1][Len(sent[1]) - 1].type = "client_content"
  /\ sent[1][Len(sent[1]) - 1].body.via = "sendImage"
  /\ sent[1][Len(sent[1])].type = "client_content"
  /\ sent[1][Len(sent[1])].body.via = "sendText"

\* C35: a text or image frame handled while the GeminiConnection is not
\* open (not connected, or its socket not OPEN) writes nothing, to the
\* upstream socket or to the client, and leaves the client socket, the
\* registry and the upstream connection as they are.
C35_ContentDroppedWhenDown ==
  [][\A c \in Conns : \A type \in {"text", "image"} :
       (Handles(c, type)
          /\ ~(geminiConn[c].connected /\ geminiConn[c].ws /\ upstreamWs[c] = "OPEN")) =>
          UNCHANGED <<sent, clientWs, connections, geminiConn, upstreamWs, connectP, cfgPc,
                      closeWait, loop>>]_vars

\* A text frame was handled while the upstream socket was still connecting:
\* nothing was written, the client socket is open and registered.
C35_Witness ==
  /\ received.type = "text"
  /\ received.n = nEvents
  /\ received.conn = 1
  /\ upstreamWs[1] = "CONNECTING"
  /\ sent[1] = <<>>
  /\ clientWs[1] = "OPEN"
  /\ InRegistry(1)

\* C39: a frame of unknown type handled after the configuration frame
\* writes nothing, to the upstream socket or to the client, and leaves the
\* client socket and the upstream connection as they are.
C39_UnknownTypeIgnored ==
  [][\A c \in Conns :
       Handles(c, "bogus") =>
         UNCHANGED <<sent, clientWs, connections, geminiConn, upstreamWs, connectP, cfgPc,
                     configReceived, acked, closeWait, loop>>]_vars

\* A frame of unknown type was handled on a ready session, which is still open.
C39_Witness ==
  /\ received.type = "bogus"
  /\ received.n = nEvents
  /\ connectP[1] = "resolved"
  /\ isOpen(1)
  /\ clientWs[1] = "OPEN"
  /\ loop[1].pc = "receiving"

\* C34: at no time are two segments being played, that is, started and
\* neither played to their end nor halted.
C34_AtMostOnePlaying ==
  \A s, t \in Segs :
    (s # t /\ source[s] = "playing" /\ source[t] = "playing") =>
      (now >= endsAt[s] \/ now >= endsAt[t])

\* C37: with the instance disposed no stall timer is pending and none
\* fires; a tick leaves a timer pending only with isPlaying set and the
\* instance not disposed; stop() leaves no timer pending.
C37_TimerOnlyWhilePlaying ==
  [][/\ streamer'.isDisposed => streamer'.playbackTimeout = -1
     /\ TickFires =>
          /\ ~streamer.isDisposed
          /\ streamer'.playbackTimeout >= 0 => (streamer'.isPlaying /\ ~streamer'.isDisposed)
     /\ StopCalled => streamer'.playbackTimeout = -1]_vars

\* Playback has ended without stop() or dispose(), and the timer armed by
\* addPCM16 is gone: a tick has found isPlaying false and set no new timer.
C37_Witness ==
  /\ nSegs > 0
  /\ streamer.nStops = 0
  /\ ~streamer.isDisposed
  /\ ~streamer.isPlaying
  /\ streamer.playbackTimeout = -1

\* Segment s is in the queue.
Queued(s) == \E i \in 1..Len(streamer.audioQueue) : streamer.audioQueue[i] = s
\* The number of times segment s was started.
Starts(s) == Cardinality({i \in 1..Len(streamer.started) : streamer.started[i] = s})

\* C38: the segments are started in the order of addPCM16, none twice and
\* none after stop() or dispose() has discarded it; every segment handed to
\* addPCM16 is waiting in the queue, started or discarded, and none is left
\* waiting when isPlaying is false.
C38_StartedOnceInOrder ==
  /\ \A i, j \in 1..Len(streamer.started) :
       i < j => streamer.started[i] < streamer.started[j]
  /\ \A s \in 1..nSegs :
       /\ Starts(s) <= 1
       /\ source[s] = "discarded" => Starts(s) = 0
       /\ Queued(s) => Starts(s) = 0
       /\ (~Queued(s) /\ source[s] # "discarded") => Starts(s) = 1
  /\ ~streamer.isPlaying => streamer.audioQueue = <<>>

\* stop() has discarded a queued segment, and a segment enqueued after it
\* has been started.
C38_Witness ==
  \E s, t \in 1..nSegs :
    /\ s < t
    /\ source[s] = "discarded"
    /\ Starts(t) = 1
    /\ Starts(1) = 1

\* The step is the "error" event of the upstream socket of connection c.
ErrorEvent(c) ==
  /\ upstreamWs[c] \in {"CONNECTING", "OPEN"}
  /\ upstreamWs'[c] = "CLOSING"
  /\ closeWait'[c] = closeWait[c]
  /\ cleanups' = cleanups

\* C36: a receive() that is pending when the upstream socket closes
\* resolves with null, one that is pending when the socket reports an error
\* rejects, and each receive() that returns a message returns one message,
\* the one that arrived while it was pending.
C36_ReceiveOutcomes ==
  [][\A c \in Conns :
       /\ (loop[c].pc = "receiving" /\ upstreamWs[c] # "CLOSED" /\ upstreamWs'[c] = "CLOSED") =>
            (loop'[c].got = "null" /\ loop'[c].pc = "exited")
       /\ (loop[c].pc = "receiving" /\ ErrorEvent(c)) =>
            (loop'[c].got = "error" /\ loop'[c].pc = "exited")
       /\ loop'[c].n # loop[c].n =>
            /\ loop[c].pc = "receiving"
            /\ FrameArrives
            /\ loop'[c].n = loop[c].n + 1
            /\ loop'[c].got = "frame"
            /\ loop'[c].frame \in Frames
       /\ (loop[c].pc = "receiving" /\ loop'[c].pc # "receiving") =>
            loop'[c].got \in {"frame", "null", "error"}]_vars

\* A receive() has returned a frame, and a later one was pending when the
\* upstream socket closed.
C36_Witness ==
  /\ loop[1].n >= 1
  /\ loop[1].got = "null"
  /\ loop[1].pc = "exited"
  /\ upstreamWs[1] = "CLOSED"

====
